---- MODULE Spec2Model ----
(***************************************************************************)
(* A model of the serial G-code senders of roboarm_2:                      *)
(*   home.py     stdin-driven streamer with the %%HOME macro               *)
(*   sending.py  self-recovering homing sequence followed by a file stream *)
(* The receiver thread (_rx_loop), the dispatcher thread (_sender_loop and *)
(* what it calls) and the producer (main) are processes; the firmware and  *)
(* the serial line are the environment.                                    *)
(***************************************************************************)
EXTENDS Integers, Sequences, FiniteSets, TLC

(* ------------------------------ bounds -------------------------------- *)

\* _rxq = queue.Queue(maxsize=8192), scaled down
RxqCap == 2
\* _workq = queue.Queue(maxsize=65536), scaled down
WorkCap == 2
\* the most commands a firmware holds before it answers them
DevCap == 3
\* status queries the firmware holds before it answers them
StatCap == 1
\* lines the producer reads from stdin
MaxLines == 2
\* the largest --line-retries tried
MaxLineRetries == 2
\* the largest --homing-retries tried in the macro
MaxHomingRetries == 1
\* the largest --homing-retries tried for one homing step
MaxTries == 2
\* the largest --line_retries tried in a file stream
MaxStreamRetries == 1

(* ------------------------------ values -------------------------------- *)

\* command texts a producer may enqueue
Cmds == {"G0 X1", "G1 Y2"}

\* the state labels the firmware reports
DevStates == {"Idle", "Run", "Alarm"}

\* alarm and error codes the firmware may send
AlarmCodes == {3, 9}
NoCode == 0 - 1

\* a line on its way from the firmware to the receiver.  kind "ok", "error",
\* "alarm" are reply lines (lowercased text starts with that word), kind
\* "status" is a <State|...> report.  re is the write the line answers (it is
\* not on the wire: it names the line in the properties).
Line(k, s, c, r) == [kind |-> k, state |-> s, code |-> c, re |-> r]
OkLine(r) == Line("ok", "", NoCode, r)
ErrorLine(c, r) == Line("error", "", c, r)
AlarmLine(c, r) == Line("alarm", "", c, r)
\* a status report: form "bar" is <State|...>, "plain" is <State>, "barcut" is
\* <State|... with the closing > lost, "cut" is <State with both lost; the
\* firmware modelled here sends the first form
StatusLine(s, f, r) == Line("status", <<s, f>>, NoCode, r)
StatusForms == {"bar"}
\* Python's None for an ack, and the string "timeout" send_gcode returns
None == Line("none", "", NoCode, 0)
TimeoutStr == Line("timeout", "", NoCode, 0)

\* the replies any firmware may give to a command
Replies(r) == {OkLine(r), ErrorLine(9, r)} \cup {AlarmLine(c, r) : c \in AlarmCodes}

IsAck(l) == l.kind \in {"ok", "error", "alarm"}

\* work items
Gcode(c) == [type |-> "gcode", line |-> c]
HomeItem == [type |-> "home", line |-> ""]
EOF_SENTINEL == [type |-> "eof", line |-> ""]

\* the history of a run of the macro: the commands of the steps in the order
\* of their first write, and the steps that returned True
NoMacro == [cmds |-> <<>>, oks |-> <<>>]

VARIABLES
    \* the program being run: "home" (home.py), "sender" (sender.py) or
    \* "sending" (sending.py)
    variant,
    \* command-line arguments: [homing_retries, line_retries]
    args,
    \* the firmware at the other end of the line.  script: the replies it
    \* gives to the successive writes of a homing command, <<>> for a firmware
    \* that may give any reply to any command; buf: the number of commands it
    \* holds before it answers them; faults: whether a read or a write on the
    \* serial line may fail
    device,
    \* shared state of the program
    rxq, last_state, stop, workq,
    \* the environment (firmware and serial line): the commands and the
    \* status queries that are not answered yet
    devq, statq,
    \* the receiver thread: its position and the line it holds
    rxpc, rxline,
    \* the producer (main): its position and the lines left on stdin
    mainpc, stdin,
    \* the dispatcher thread: position, return addresses, returned value
    pc, stack, ret,
    \* locals of send_gcode
    sg,
    \* the step of _perform_home_sequence, locals of send_homing_with_retries
    step, sh,
    \* sending.py: locals of homing_step and of send_blocking
    hm, sb,
    \* the scale of the model: rxq is the maxsize of _rxq, steps the number
    \* of steps of the macro that are followed
    scale,
    \* history: what the claims speak about and the program does not store
    wire, acked, enq, wtick, clean,
    \* history of the wait the dispatcher is in or was last in
    wi,
    \* sending.py: locals of stream_file and what it has printed and written
    sf,
    \* history of the macro: the step commands written and the steps that
    \* returned True
    mh

progvars == <<variant, args, device, scale, rxq, last_state, stop, workq>>
envvars == <<devq, statq>>
rxvars == <<rxpc, rxline>>
mainvars == <<mainpc, stdin>>
txvars == <<pc, stack, ret, sg, step, sh, hm, sb>>
histvars == <<wire, acked, enq, wtick, clean, wi, sf, mh>>
vars == <<progvars, envvars, rxvars, mainvars, txvars, histvars>>

(* ---------------------------- environment ----------------------------- *)

\* the firmware receives a command (r names the write in the history): it
\* holds the command until it answers; a full buffer loses the command
DevAccepts == Len(devq) < device.buf
DevTake(r) == IF DevAccepts THEN Append(devq, r) ELSE devq

\* the firmware receives the status query byte; m = 1 marks a query of the
\* wait the dispatcher is in.  A query that meets a full buffer is lost
StatTake(q, m) == IF Len(q) < StatCap THEN Append(q, m) ELSE q
\* a wait begins: the queries already on the line are earlier ones
Unmark(q) == [i \in DOMAIN q |-> 0]

\* the lines the receiver may read next: a reply to the oldest command the
\* firmware holds, or a report of the present state (any of DevStates, in any
\* of the forms) in answer to the oldest status query
Answers(r) ==
    IF device.script = <<>> THEN Replies(r)
    ELSE IF r \in DOMAIN device.script THEN {[device.script[r] EXCEPT !.re = r]}
    ELSE {OkLine(r)}

Incoming ==
    (IF devq = <<>> THEN {} ELSE Answers(Head(devq)))
        \cup (IF statq = <<>> THEN {}
              ELSE {StatusLine(s, f, Head(statq)) : s \in DevStates, f \in StatusForms})

\* a command or a status query is never answered, or its answer is lost
dev_silent ==
    /\ \/ devq # <<>> /\ devq' = Tail(devq) /\ statq' = statq
       \/ statq # <<>> /\ statq' = Tail(statq) /\ devq' = devq
    /\ clean' = (clean /\ devq' = devq)
    /\ UNCHANGED <<progvars, rxvars, mainvars, txvars, wire, acked, enq, sf, mh, wtick, wi>>

(* ------------------------- home.py: receiver -------------------------- *)

\* home.py 33-38: the state label of a line that starts with "<"
TrackState_home(line) ==
    IF line.kind = "status"
    THEN IF line.state[2] \in {"bar", "barcut"} THEN line.state[1]
         ELSE IF line.state[2] = "plain" THEN line.state[1]
         ELSE last_state
    ELSE last_state

\* sending.py 33-38: the line must also hold a ">"
TrackState_sending(line) ==
    IF line.kind = "status" /\ line.state[2] \in {"bar", "plain"}
    THEN line.state[1]
    ELSE last_state

\* (sender.py 40-45 is home.py 33-38)
TrackState(line) ==
    IF variant = "sending" THEN TrackState_sending(line) ELSE TrackState_home(line)

\* home.py 41 and sender.py 48: only reply lines go to the ack queue;
\* sending.py 39: every line
Queued(line) == IF variant = "sending" THEN TRUE ELSE IsAck(line)

\* a line as the queue holds it: what a status report answers is of no
\* interest once the report has been tracked
OnQueue(line) == IF line.kind = "status" THEN StatusLine("", "bar", 0) ELSE line

\* the loop condition: home.py 25 and sender.py 33 stop on _stop, sending.py 27
\* never does
RxStops == variant # "sending" /\ stop

\* one turn of _rx_loop: read a line, track the state, queue the line; with
\* the queue full the thread is left inside _rxq.put
rx_loop ==
    /\ rxpc \in {"read", "warn", "caught"}
    /\ IF RxStops
       THEN /\ rxpc' = "exit"
            /\ UNCHANGED <<envvars, rxline, last_state, rxq, clean, wi>>
       ELSE \E line \in Incoming :
            /\ devq' = IF IsAck(line) THEN Tail(devq) ELSE devq
            /\ statq' = IF IsAck(line) THEN statq ELSE Tail(statq)
            /\ last_state' = TrackState(line)
            /\ clean' = (clean /\ line.kind \in {"ok", "status"})
            /\ wi' = IF line.kind = "status" /\ line.re = 1
                        /\ wi.result = "none" /\ TrackState(line) \in wi.targets
                     THEN [wi EXCEPT !.fresh = TRUE]
                     ELSE wi
            /\ IF ~Queued(line)
               THEN rxpc' = "read" /\ UNCHANGED <<rxq, rxline>>
               ELSE IF Len(rxq) < scale.rxq
               THEN /\ rxq' = Append(rxq, OnQueue(line))
                    /\ rxpc' = "read"
                    /\ rxline' = rxline
               ELSE /\ rxpc' = "put"
                    /\ rxline' = OnQueue(line)
                    /\ rxq' = rxq
    /\ UNCHANGED <<variant, args, device, scale, stop, workq, mainvars, txvars, wire, acked, enq, sf, mh,
                   wtick>>

\* a read from the serial line raises.  home.py 46-47: the handler inside the
\* loop prints the traceback and the loop goes on; sender.py 53-54: the only
\* handler is outside the loop; sending.py 40-41: the handler leaves the loop
\* (a receiver that ends on a failed read)
RxSurvives_never == FALSE
RxSurvives == variant = "home"
rx_fail ==
    /\ rxpc \in {"read", "warn", "caught"}
    /\ device.faults
    /\ ~RxStops
    /\ rxpc' = IF RxSurvives THEN "caught" ELSE "exit"
    /\ UNCHANGED <<progvars, envvars, rxline, mainvars, txvars, histvars>>

\* home.py 43-45: put(lower, timeout=0.1) enqueues when a slot is free by the
\* deadline and drops the line otherwise; sending.py 39: put(line) waits
PutDrops == variant # "sending"
\* (a queue that makes room by dropping its oldest line instead)
PutResult_oldest ==
    IF Len(rxq) < scale.rxq THEN Append(rxq, rxline) ELSE Append(Tail(rxq), rxline)
PutResult == IF Len(rxq) < scale.rxq THEN Append(rxq, rxline) ELSE rxq
rx_put ==
    /\ rxpc = "put"
    /\ Len(rxq) >= scale.rxq => PutDrops
    /\ rxq' = PutResult
    /\ rxpc' = IF Len(rxq) < scale.rxq THEN "read" ELSE "warn"
    /\ rxline' = None
    /\ UNCHANGED <<variant, args, device, scale, last_state, stop, workq, envvars, mainvars,
                   txvars, histvars>>

(* -------------------------- home.py: producer ------------------------- *)

\* home.py 322-331: read a line; leave the loop when _stop is set or stdin is
\* exhausted, otherwise go on to enqueue the line
main_read ==
    /\ mainpc = "read"
    /\ IF stdin = <<>> \/ stop THEN mainpc' = "eof" ELSE mainpc' = "put"
    /\ UNCHANGED <<progvars, envvars, rxvars, stdin, txvars, histvars>>

\* home.py 329-331: _workq.put blocks while the queue is full
main_put ==
    /\ mainpc = "put"
    /\ Len(workq) < WorkCap
    /\ workq' = Append(workq, Head(stdin))
    /\ enq' = Append(enq, Head(stdin).line)
    /\ stdin' = Tail(stdin)
    /\ mainpc' = "read"
    /\ UNCHANGED <<variant, args, device, scale, rxq, last_state, stop, envvars, rxvars, txvars,
                   wire, acked, wtick, clean, wi, sf, mh>>

\* home.py 334: the sentinel follows the input
main_eof ==
    /\ mainpc = "eof"
    /\ Len(workq) < WorkCap
    /\ workq' = Append(workq, EOF_SENTINEL)
    /\ mainpc' = "join"
    /\ UNCHANGED <<variant, args, device, scale, rxq, last_state, stop, envvars, rxvars, stdin,
                   txvars, histvars>>

\* home.py 336-338: join the dispatcher, then stop the receiver; sender.py
\* 294-298: the receiver is stopped only with --close-on-exit, which is off
main_join ==
    /\ mainpc = "join"
    /\ pc \in {"exit", "abort", "crashed", "dead"}
    /\ stop' = (stop \/ variant = "home")
    /\ mainpc' = "done"
    /\ UNCHANGED <<variant, args, device, scale, rxq, last_state, workq, envvars, rxvars, stdin,
                   txvars, histvars>>

(* ------------------------- home.py: send_gcode ------------------------ *)

\* what the dispatcher leaves alone in every step
txframe == <<variant, args, device, scale, stop, workq, rxvars, mainvars, hm, sb>>

\* the value a call returns: fn names the function that returned
Ret(f, b, a) == [fn |-> f, ok |-> b, ack |-> a]

\* a return to the caller with value v, and a call of the code at label to
\* that comes back to label back
Return(v) == pc' = Head(stack) /\ stack' = Tail(stack) /\ ret' = v
Call(to, back) == pc' = to /\ stack' = <<back>> \o stack /\ ret' = ret

\* a call of send_gcode(gcode, retries): the locals, and the acks of the
\* attempts made so far
EnterSendGcode(gcode, retries) ==
    [cmd |-> gcode, retries |-> retries, attempt |-> 1, ack |-> None, log |-> <<>>]
NoSendGcode == EnterSendGcode("", 0)

\* the call is one made by _sender_loop for a queued line
FromLoop == stack = <<"sl_gcode">>

\* home.py 118-120: write the command; range(1, retries + 1) is empty for
\* retries < 1 and line 130 then reads the unbound local ack.  A write or
\* flush that raises (home.py 105-106) has no handler in send_line, send_gcode
\* or _sender_loop: the exception ends the dispatcher thread
sg_send ==
    /\ pc = "sg_send"
    /\ IF sg.retries < 1
       THEN /\ pc' = "crashed"
            /\ UNCHANGED <<devq, wtick, wire, clean, mh>>
       ELSE \/ /\ devq' = DevTake(IF FromLoop THEN Len(wire) + 1 ELSE 0)
               /\ wtick' = 1 - wtick
               /\ wire' = IF FromLoop THEN Append(wire, sg.cmd) ELSE wire
               /\ mh' = IF stack # <<>> /\ Head(stack) = "hs_ret"
                        THEN [mh EXCEPT !.cmds = Append(@, sg.cmd)]
                        ELSE mh
               /\ clean' = (clean /\ DevAccepts)
               /\ pc' = "sg_wait"
            \/ /\ device.faults
               /\ pc' = "dead"
               /\ clean' = FALSE
               /\ UNCHANGED <<devq, wtick, wire, mh>>
    /\ UNCHANGED <<txframe, rxq, last_state, statq, stack, ret, sg, step, sh,
                   acked, enq, sf, wi>>

\* home.py 122-130: the end of one turn of the for loop with ack a: return on
\* "ok", go on while attempts remain, return the last outcome otherwise
\* (a send_gcode that never tries again)
AfterAttempt_once(a) ==
    [done |-> TRUE,
     val |-> Ret("send_gcode", a.kind = "ok", IF a = None THEN TimeoutStr ELSE a)]
AfterAttempt(a) ==
    IF a.kind = "ok"
    THEN [done |-> TRUE, val |-> Ret("send_gcode", TRUE, a)]
    ELSE IF sg.attempt < sg.retries
    THEN [done |-> FALSE, val |-> Ret("send_gcode", FALSE, a)]
    ELSE [done |-> TRUE,
          val |-> Ret("send_gcode", FALSE, IF a = None THEN TimeoutStr ELSE a)]

\* wait_ack, home.py 108-115: the oldest ack of the queue, or None when the
\* queue stayed empty until the deadline
wait_ack == IF rxq = <<>> THEN None ELSE Head(rxq)
AfterGet == IF rxq = <<>> THEN rxq ELSE Tail(rxq)

\* home.py 121-130
sg_wait ==
    /\ pc = "sg_wait"
    /\ rxq' = AfterGet
    /\ LET a == wait_ack
           r == AfterAttempt(a) IN
        /\ sg' = [sg EXCEPT !.ack = a, !.log = Append(@, a),
                            !.attempt = IF r.done THEN @ ELSE @ + 1]
        /\ IF r.done
           THEN /\ ret' = r.val
                /\ pc' = Head(stack)
                /\ stack' = Tail(stack)
           ELSE /\ pc' = "sg_send"
                /\ UNCHANGED <<ret, stack>>
        /\ acked' = IF FromLoop /\ a.kind = "ok" THEN Append(acked, a.re) ELSE acked
        /\ clean' = (clean /\ (a = None => devq = <<>>))
    /\ UNCHANGED <<txframe, last_state, envvars, step, sh, wire, enq, sf, mh, wtick, wi>>

(* ------------------------ home.py: _sender_loop ----------------------- *)

\* home.py 257-285: take the next item; with the queue empty leave when _stop
\* is set.  sender.py 206-209: at the sentinel the loop waits for the motion
\* to complete before it returns
\* (a dispatcher that takes the newest item instead)
WorkGet_newest == workq[Len(workq)]
WorkGet == Head(workq)
sl_get ==
    /\ pc = "sl_get"
    /\ IF workq = <<>>
       THEN /\ stop
            /\ pc' = "exit"
            /\ UNCHANGED <<workq, stack, sg, step>>
       ELSE /\ workq' = Tail(workq)
            /\ IF WorkGet = EOF_SENTINEL
               THEN /\ pc' = IF variant = "sender" THEN "wm_start" ELSE "exit"
                    /\ stack' = IF variant = "sender" THEN <<"sl_eof">> ELSE stack
                    /\ UNCHANGED <<sg, step>>
               ELSE IF WorkGet.type = "home"
               THEN /\ pc' = "hs_step"
                    /\ stack' = <<"sl_home">>
                    /\ step' = 1
                    /\ sg' = sg
               ELSE /\ pc' = "sg_send"
                    /\ stack' = <<"sl_gcode">>
                    /\ sg' = EnterSendGcode(WorkGet.line, args.line_retries)
                    /\ step' = step
    /\ mh' = IF workq # <<>> /\ WorkGet.type = "home" THEN NoMacro ELSE mh
    /\ UNCHANGED <<variant, args, device, scale, rxq, last_state, stop, envvars, rxvars,
                   mainvars, ret, sh, hm, sb, wire, acked, enq, wtick, clean, wi, sf>>

\* home.py 282-285 and sender.py 232-234: a line that failed is reported and
\* the loop goes on, as it does after a line that succeeded
\* (a loop that ends at a line that failed, as it does at a failed macro)
LoopEnds_onfail(ok) == ~ok
LoopEnds(ok) == FALSE
sl_gcode ==
    /\ pc = "sl_gcode"
    /\ IF LoopEnds(ret.ok)
       THEN pc' = "abort" /\ stop' = TRUE
       ELSE pc' = "sl_get" /\ stop' = stop
    /\ sg' = NoSendGcode
    /\ UNCHANGED <<variant, args, device, scale, rxq, last_state, workq, envvars, rxvars,
                   mainvars, stack, ret, step, sh, hm, sb, histvars>>

\* home.py 272-278: after the macro the loop goes on; a failed macro sets
\* _stop and ends the thread
\* (a loop that goes on after a failed macro)
Aborts_never(ok) == FALSE
Aborts(ok) == ~ok
sl_home ==
    /\ pc = "sl_home"
    /\ IF Aborts(ret.ok)
       THEN pc' = "abort" /\ stop' = TRUE
       ELSE pc' = "sl_get" /\ stop' = stop
    /\ step' = 0
    /\ UNCHANGED <<variant, args, device, scale, rxq, last_state, workq, envvars, rxvars,
                   mainvars, stack, ret, sg, sh, hm, sb, histvars>>

(* --------------------- home.py: status-wait helpers ------------------- *)

Bool(f, b) == Ret(f, b, None)

\* the history of a wait: the state at the first read of the present turn,
\* whether a status request followed it, the state at the second read, the
\* result, and whether the receiver stored an Idle report that answers a
\* request of this wait
NoWait == [targets |-> {}, first |-> "", req |-> FALSE, second |-> "",
           result |-> "none", fresh |-> FALSE]
EnterWait(T) == [NoWait EXCEPT !.targets = T]

\* home.py 55-60: request_status writes the query byte
request_status(q, m) == StatTake(q, m)

\* home.py 84-91: wait_motion_complete starts with a status request
wm_start ==
    /\ pc = "wm_start"
    /\ statq' = request_status(statq, 1)
    /\ wtick' = 1 - wtick
    /\ pc' = "wm_loop"
    /\ UNCHANGED <<txframe, rxq, last_state, devq, stack, ret, sg, step, sh, wire,
                   acked, enq, sf, mh, clean, wi>>

\* home.py 92-98: phase 1 ends when a state other than Idle is read or
\* leave_idle_timeout has passed; phase 2 is wait_until_idle
wm_loop ==
    /\ pc = "wm_loop"
    /\ IF last_state # "Idle"
       THEN /\ pc' = "wi_start"
            /\ UNCHANGED <<statq, wtick>>
       ELSE /\ statq' = request_status(statq, 1)
            /\ wtick' = 1 - wtick
            /\ pc' \in {"wm_loop", "wi_start"}
    /\ UNCHANGED <<txframe, rxq, last_state, devq, stack, ret, sg, step, sh, wire,
                   acked, enq, sf, mh, clean, wi>>

\* home.py 67-69: wait_until_idle starts with a status request and a sleep
wi_start ==
    /\ pc = "wi_start"
    /\ statq' = request_status(Unmark(statq), 1)
    /\ wtick' = 1 - wtick
    /\ wi' = EnterWait({"Idle"})
    /\ pc' = "wi_loop"
    /\ UNCHANGED <<txframe, rxq, last_state, devq, stack, ret, sg, step, sh, wire,
                   acked, enq, sf, mh, clean>>

\* the end of a turn of the while loop of wait_until_idle (home.py 71): the
\* next turn, or the timeout (home.py 81-82)
WaitTurnEnds(second) ==
    \/ /\ pc' = "wi_loop"
       /\ UNCHANGED <<stack, ret>>
       /\ wi' = [wi EXCEPT !.first = "", !.req = FALSE, !.second = ""]
    \/ /\ pc' = Head(stack)
       /\ stack' = Tail(stack)
       /\ ret' = Bool("wait", FALSE)
       /\ wi' = [wi EXCEPT !.second = second, !.result = "false"]

\* home.py 72 and 78-80: the first read of the tracked state; a state other
\* than Idle is followed by a sleep and a status request
wi_loop ==
    /\ pc = "wi_loop"
    /\ IF last_state = "Idle"
       THEN /\ pc' = "wi_confirm"
            /\ wi' = [wi EXCEPT !.first = last_state]
            /\ UNCHANGED <<statq, wtick, stack, ret>>
       ELSE /\ statq' = request_status(statq, 1)
            /\ wtick' = 1 - wtick
            /\ WaitTurnEnds("")
    /\ UNCHANGED <<txframe, rxq, last_state, devq, sg, step, sh, wire, acked, enq, sf, mh,
                   clean>>

\* home.py 73-75: a poll interval, a status request, a short sleep
wi_confirm ==
    /\ pc = "wi_confirm"
    /\ statq' = request_status(statq, 1)
    /\ wtick' = 1 - wtick
    /\ wi' = [wi EXCEPT !.req = TRUE]
    /\ pc' = "wi_read2"
    /\ UNCHANGED <<txframe, rxq, last_state, devq, stack, ret, sg, step, sh, wire,
                   acked, enq, sf, mh, clean>>

\* home.py 76-77: the second read decides
\* (a wait that takes the first read for the answer)
ConfirmsIdle_first == TRUE
ConfirmsIdle == last_state = "Idle"
wi_read2 ==
    /\ pc = "wi_read2"
    /\ IF ConfirmsIdle
       THEN /\ pc' = Head(stack)
            /\ stack' = Tail(stack)
            /\ ret' = Bool("wait", TRUE)
            /\ wi' = [wi EXCEPT !.second = last_state, !.result = "true"]
       ELSE WaitTurnEnds(last_state)
    /\ UNCHANGED <<txframe, rxq, last_state, envvars, sg, step, sh, wire, acked,
                   enq, sf, mh, wtick, clean>>

\* sender.py 208-209: the result of the wait is not looked at
sl_eof ==
    /\ pc = "sl_eof"
    /\ pc' = "exit"
    /\ wi' = NoWait
    /\ UNCHANGED <<progvars, envvars, rxvars, mainvars, stack, ret, sg, step, sh,
                   hm, sb, wire, acked, enq, sf, mh, wtick, clean>>

(* ------------------ home.py: send_homing_with_retries ----------------- *)

\* home.py 132-140: the code of an "alarm:<n>" reply, NoCode for any other
parse_alarm_code(ack) ==
    IF ack.kind = "alarm" THEN ack.code ELSE NoCode

\* home.py 187: the alarms that are answered by an unlock and a retry
\* (a retry on every alarm)
Recoverable_any == {3, 8, 9}
Recoverable == {8, 9}

\* the write of attempt i of a homing command, for the history
Tag(i) == i
\* conf counts the attempts that took the reply to their own write from the
\* queue, -1 once an attempt took another reply or none
Conforms(c, i, ack) ==
    IF c = i - 1 /\ ack.kind # "none" /\ ack.re = Tag(i) THEN i ELSE 0 - 1
\* against a scripted firmware the model follows a homing step while every
\* attempt takes the reply of the script
OffScript(c) == device.script # <<>> /\ c < 0

\* a call of send_homing_with_retries(cmd, max_tries): the locals, and the
\* writes, recoveries and motion waits of the call so far
EnterHoming(cmd, n) ==
    [cmd |-> cmd, max_tries |-> n, i |-> 1, started |-> FALSE, ack |-> None,
     iter |-> 0, writes |-> 0, unlocks |-> 0, conf |-> 0, waited |-> 0]
NoHoming == EnterHoming("", 0)

\* home.py 161-168 and 208-209: the next attempt writes the homing command;
\* after max_tries attempts the step has failed
sh_send ==
    /\ pc = "sh_send"
    /\ IF sh.i > sh.max_tries
       THEN /\ pc' = Head(stack)
            /\ stack' = Tail(stack)
            /\ ret' = Bool("homing", FALSE)
            /\ UNCHANGED <<devq, wtick, sh, mh>>
       ELSE /\ devq' = DevTake(Tag(sh.i))
            /\ wtick' = 1 - wtick
            /\ sh' = [sh EXCEPT !.started = FALSE, !.ack = None, !.iter = 0,
                                !.writes = @ + 1]
            /\ mh' = IF sh.writes = 0 THEN [mh EXCEPT !.cmds = Append(@, sh.cmd)]
                     ELSE mh
            /\ pc' = "sh_loop"
            /\ UNCHANGED <<stack, ret>>
    /\ UNCHANGED <<txframe, rxq, last_state, statq, sg, step, wire, acked, enq, sf,
                   clean, wi>>

\* home.py 169-178: while the start window is open, take an ack if one comes
\* within 0.2 s; "ok" means started, "alarm" and "error" end the watch
sh_loop ==
    /\ pc = "sh_loop"
    /\ \/ /\ sh.iter > 0
          /\ pc' = "sh_after"
          /\ UNCHANGED <<rxq, sh>>
       \/ /\ rxq' = AfterGet
          /\ sh' = IF rxq = <<>> THEN sh
                   ELSE [sh EXCEPT !.ack = Head(rxq),
                                   !.started = (Head(rxq).kind = "ok")]
          /\ pc' = IF rxq # <<>> /\ Head(rxq).kind \in {"ok", "alarm", "error"}
                   THEN "sh_after" ELSE "sh_poll"
    /\ UNCHANGED <<txframe, last_state, envvars, stack, ret, sg, step, histvars>>

\* home.py 180: poll for a status change
sh_poll ==
    /\ pc = "sh_poll"
    /\ statq' = request_status(statq, 1)
    /\ wtick' = 1 - wtick
    /\ pc' = "sh_check"
    /\ UNCHANGED <<txframe, rxq, last_state, devq, stack, ret, sg, step, sh, wire,
                   acked, enq, sf, mh, clean, wi>>

\* home.py 181-183: any tracked state other than Idle counts as started
StartedByState == last_state # "Idle"
sh_check ==
    /\ pc = "sh_check"
    /\ IF StartedByState
       THEN sh' = [sh EXCEPT !.started = TRUE] /\ pc' = "sh_after"
       ELSE sh' = [sh EXCEPT !.iter = 1] /\ pc' = "sh_loop"
    /\ UNCHANGED <<txframe, rxq, last_state, envvars, stack, ret, sg, step,
                   histvars>>

\* home.py 185-203: what follows the watch.  "fail": return False; "unlock":
\* unlock_after_alarm and the next attempt; "wait": wait_motion_complete
\* (a step that gives up when homing did not start)
AfterWatch_strict(ack, started) ==
    IF ack # None /\ ack.kind \in {"alarm", "error"} /\ ~started
    THEN IF parse_alarm_code(ack) \in Recoverable THEN "unlock" ELSE "fail"
    ELSE IF ~started THEN "fail" ELSE "wait"
AfterWatch(ack, started) ==
    IF ack # None /\ ack.kind \in {"alarm", "error"} /\ ~started
    THEN IF parse_alarm_code(ack) \in Recoverable THEN "unlock" ELSE "fail"
    ELSE IF ~started THEN "unlock" ELSE "wait"

sh_after ==
    /\ pc = "sh_after"
    /\ LET todo == AfterWatch(sh.ack, sh.started)
           conf == Conforms(sh.conf, sh.i, sh.ack) IN
        CASE OffScript(conf) ->
                /\ pc' = "off_script"
                /\ sh' = [sh EXCEPT !.conf = conf]
                /\ UNCHANGED <<stack, ret>>
          [] todo = "fail" ->
                /\ pc' = Head(stack)
                /\ stack' = Tail(stack)
                /\ ret' = Bool("homing", FALSE)
                /\ sh' = [sh EXCEPT !.conf = conf]
          [] todo = "unlock" ->
                /\ pc' = "ua_send"
                /\ stack' = <<"sh_next">> \o stack
                /\ ret' = ret
                /\ sh' = [sh EXCEPT !.conf = conf, !.unlocks = @ + 1]
          [] todo = "wait" ->
                /\ pc' = "wm_start"
                /\ stack' = <<"sh_moved">> \o stack
                /\ ret' = ret
                /\ sh' = [sh EXCEPT !.conf = conf, !.waited = @ + 1]
    /\ UNCHANGED <<txframe, rxq, last_state, envvars, sg, step, histvars>>

\* home.py 190-191 and 199-200, sender.py 148: after the unlock, the next
\* attempt
sh_next ==
    /\ pc = "sh_next"
    /\ sh' = [sh EXCEPT !.i = @ + 1]
    /\ pc' = IF variant = "sender" THEN "shs_send" ELSE "sh_send"
    /\ UNCHANGED <<txframe, rxq, last_state, envvars, stack, ret, sg, step,
                   histvars>>

\* home.py 203-206: homing is complete when the motion wait succeeds,
\* otherwise the next attempt follows
sh_moved ==
    /\ pc = "sh_moved"
    /\ IF ret.ok
       THEN /\ pc' = Head(stack)
            /\ stack' = Tail(stack)
            /\ ret' = Bool("homing", TRUE)
            /\ sh' = sh
       ELSE /\ pc' = "sh_send"
            /\ sh' = [sh EXCEPT !.i = @ + 1]
            /\ UNCHANGED <<stack, ret>>
    /\ wi' = NoWait
    /\ UNCHANGED <<txframe, rxq, last_state, envvars, sg, step, wire, acked, enq, sf, mh,
                   wtick, clean>>

\* home.py 144-145: unlock_after_alarm writes $X and sleeps
ua_send ==
    /\ pc = "ua_send"
    /\ devq' = DevTake(0)
    /\ wtick' = 1 - wtick
    /\ pc' = "ua_drain"
    /\ UNCHANGED <<txframe, rxq, last_state, statq, stack, ret, sg, step, sh,
                   wire, acked, enq, sf, mh, clean, wi>>

\* home.py 147-151: then empties the ack queue
ua_drain ==
    /\ pc = "ua_drain"
    /\ rxq' = <<>>
    /\ pc' = Head(stack)
    /\ stack' = Tail(stack)
    /\ UNCHANGED <<txframe, last_state, envvars, ret, sg, step, sh, histvars>>

(* ---------------- sender.py: send_homing_with_retries ---------------- *)

\* sender.py 141-142 and 151-152: the next attempt is a call of send_gcode
\* with retries=1; after max_tries attempts the step has failed
shs_send ==
    /\ pc = "shs_send"
    /\ IF sh.i > sh.max_tries
       THEN /\ Return(Bool("homing", FALSE))
            /\ UNCHANGED <<sg, sh, mh>>
       ELSE /\ Call("sg_send", "shs_ret")
            /\ sg' = EnterSendGcode(sh.cmd, 1)
            /\ sh' = [sh EXCEPT !.started = FALSE, !.ack = None, !.writes = @ + 1]
            /\ mh' = IF sh.writes = 0 THEN [mh EXCEPT !.cmds = Append(@, sh.cmd)]
                     ELSE mh
    /\ UNCHANGED <<txframe, rxq, last_state, envvars, step, wire, acked, enq, sf,
                   wtick, clean, wi>>

\* sender.py 143-150: what follows the call.  "done": return True; "unlock":
\* unlock_after_alarm and the next attempt; "fail": return False
AfterSend(ok, ack) ==
    IF ok THEN "done"
    ELSE IF parse_alarm_code(ack) \in Recoverable THEN "unlock"
    ELSE "fail"

shs_ret ==
    /\ pc = "shs_ret"
    /\ LET todo == AfterSend(ret.ok, ret.ack) IN
        /\ sh' = [sh EXCEPT !.ack = ret.ack, !.started = ret.ok,
                            !.unlocks = IF todo = "unlock" THEN @ + 1 ELSE @]
        /\ CASE todo = "done" -> Return(Bool("homing", TRUE))
             [] todo = "fail" -> Return(Bool("homing", FALSE))
             [] todo = "unlock" -> Call("ua_send", "sh_next")
    /\ sg' = NoSendGcode
    /\ UNCHANGED <<txframe, rxq, last_state, envvars, step, histvars>>

(* -------------------- home.py: _perform_home_sequence ----------------- *)

Homing(c) == [kind |-> "homing", cmd |-> c]
Move(c) == [kind |-> "gcode", cmd |-> c]
Wait == [kind |-> "wait", cmd |-> ""]

\* home.py 224-247
steps ==
    << Homing("$HZ"), Wait, Move("g0 z180"), Wait,
       Homing("$HA"), Wait,
       Homing("$HY"), Wait,
       Move("g0 y45"), Wait,
       Homing("$HZ"), Wait,
       Homing("$HX"), Wait,
       Move("g0 x45 y45 z45 a45"), Wait >>

\* home.py 248-249 and 253: call the next step, or return True after the last
\* (the model follows the macro for its first scale.steps steps)
hs_step ==
    /\ pc = "hs_step"
    /\ step <= scale.steps
    /\ IF step > Len(steps)
       THEN /\ pc' = Head(stack)
            /\ stack' = Tail(stack)
            /\ ret' = Bool("macro", TRUE)
            /\ UNCHANGED <<sg, sh>>
       ELSE /\ stack' = <<"hs_ret">> \o stack
            /\ ret' = ret
            /\ CASE steps[step].kind = "homing" ->
                      /\ pc' = IF variant = "sender" THEN "shs_send" ELSE "sh_send"
                      /\ sh' = EnterHoming(steps[step].cmd, args.homing_retries)
                      /\ sg' = sg
                 [] steps[step].kind = "gcode" ->
                      /\ pc' = "sg_send"
                      /\ sg' = EnterSendGcode(steps[step].cmd, 1)
                      /\ sh' = sh
                 [] steps[step].kind = "wait" ->
                      /\ pc' = "wm_start"
                      /\ UNCHANGED <<sg, sh>>
    /\ UNCHANGED <<txframe, rxq, last_state, envvars, step, histvars>>

\* home.py 250-252: the first step that fails ends the sequence
\* (a sequence that goes on after a step that failed)
Continues_always(ok) == TRUE
Continues(ok) == ok
hs_ret ==
    /\ pc = "hs_ret"
    /\ mh' = IF ret.ok THEN [mh EXCEPT !.oks = Append(@, step)] ELSE mh
    /\ IF Continues(ret.ok)
       THEN /\ step' = step + 1
            /\ pc' = "hs_step"
            /\ UNCHANGED <<stack, ret>>
       ELSE /\ pc' = Head(stack)
            /\ stack' = Tail(stack)
            /\ ret' = Bool("macro", FALSE)
            /\ step' = step
    /\ sg' = NoSendGcode
    /\ sh' = NoHoming
    /\ wi' = NoWait
    /\ UNCHANGED <<txframe, rxq, last_state, envvars, wire, acked, enq, sf,
                   wtick, clean>>


(* ------------------- sending.py: the waits and sends ------------------ *)

\* what the main thread of sending.py leaves alone in every step
mframe == <<variant, args, device, scale, stop, workq, mainvars, rxline, sg, sh, wire,
            acked, enq, mh, sf>>
\* the same without the locals of stream_file
mframe_sf == <<variant, args, device, scale, stop, workq, mainvars, rxline, sg, sh, wire,
               acked, enq, mh>>

\* sending.py 43-44: send writes one line; r names the write in the history
send(r) == devq' = DevTake(r) /\ wtick' = 1 - wtick

\* sending.py 46-55: wait_ack takes lines from the queue until one is a reply
\* line; lines of any other kind are thrown away; None at the deadline, which
\* may pass while the queue is empty or after a line was thrown away
wa_get ==
    /\ pc = "wa_get"
    /\ rxq' = AfterGet
    /\ IF rxq = <<>>
       THEN Return(Ret("wait_ack", FALSE, None))
       ELSE IF IsAck(Head(rxq))
       THEN Return(Ret("wait_ack", TRUE, Head(rxq)))
       ELSE \/ UNCHANGED <<pc, stack, ret>>
            \/ Return(Ret("wait_ack", FALSE, None))
    /\ UNCHANGED <<mframe, rxpc, last_state, envvars, step, hm, sb, wtick, clean, wi>>

\* sending.py 57-61: wait_state writes "?" and sleeps one poll period
ws_poll ==
    /\ pc = "ws_poll"
    /\ statq' = StatTake(IF wi.req THEN statq ELSE Unmark(statq), 1)
    /\ wtick' = 1 - wtick
    /\ wi' = [wi EXCEPT !.req = TRUE]
    /\ pc' = "ws_check"
    /\ UNCHANGED <<mframe, rxpc, rxq, last_state, devq, stack, ret, step, hm, sb,
                   clean>>

\* sending.py 62-64: one read of the tracked state decides the turn
InTargets == last_state \in wi.targets
ws_check ==
    /\ pc = "ws_check"
    /\ IF InTargets
       THEN /\ Return(Bool("wait_state", TRUE))
            /\ wi' = [wi EXCEPT !.first = last_state, !.result = "true"]
       ELSE \/ /\ pc' = "ws_poll"
               /\ UNCHANGED <<stack, ret, wi>>
            \/ /\ Return(Bool("wait_state", FALSE))
               /\ wi' = [wi EXCEPT !.result = "false"]
    /\ UNCHANGED <<mframe, rxpc, rxq, last_state, envvars, step, hm, sb, wtick,
                   clean>>

\* the sets of states the callers wait for
IdleOnly == {"Idle"}
NotAlarm == {"Idle", "Run", "Hold", "Jog", "Check"}

(* ------------------------ sending.py: hard_clear ---------------------- *)

\* what is left of a queue of pending answers when the input buffer is
\* flushed: the answers that had arrived are lost
Flushed(q) == {SubSeq(q, k + 1, Len(q)) : k \in 0..Len(q)}

\* sending.py 67-71: the soft-reset byte, reset_input_buffer, then $X
hc_start ==
    /\ pc = "hc_start"
    /\ \E d \in Flushed(devq) :
          devq' = IF Len(d) < device.buf THEN Append(d, 0) ELSE d
    /\ statq' \in Flushed(statq)
    /\ wtick' = 1 - wtick
    /\ hm' = IF hm.cmd = "" THEN hm ELSE [hm EXCEPT !.clears = @ + 1]
    /\ sf' = IF sf.started = 0 THEN sf ELSE [sf EXCEPT !.clears = @ + 1]
    /\ Call("wa_get", "hc_s20")
    /\ UNCHANGED <<mframe_sf, rxpc, rxq, last_state, step, sb, clean, wi>>

\* sending.py 72-73
hc_s20 ==
    /\ pc = "hc_s20"
    /\ send(0)
    /\ Call("wa_get", "hc_g90")
    /\ UNCHANGED <<mframe, rxpc, rxq, last_state, statq, step, hm, sb, clean, wi>>

\* sending.py 74-75
hc_g90 ==
    /\ pc = "hc_g90"
    /\ send(0)
    /\ Call("wa_get", "hc_ws")
    /\ UNCHANGED <<mframe, rxpc, rxq, last_state, statq, step, hm, sb, clean, wi>>

\* sending.py 76: the result of the wait is not looked at
hc_ws ==
    /\ pc = "hc_ws"
    /\ pc' = "ws_poll"
    /\ wi' = EnterWait(NotAlarm)
    /\ UNCHANGED <<mframe, rxpc, rxq, last_state, envvars, stack, ret, step, hm, sb,
                   wtick, clean>>

\* sending.py 78-82: clear_alarm_if_needed, called with the return label on
\* the stack
ca_check ==
    /\ pc = "ca_check"
    /\ IF last_state = "Alarm"
       THEN /\ Call("hc_start", "ca_ws")
            /\ hm' = IF hm.cmd = "" THEN hm ELSE [hm EXCEPT !.pre = @ + 1]
       ELSE /\ Return(ret)
            /\ hm' = hm
    /\ UNCHANGED <<mframe, rxpc, rxq, last_state, envvars, step, sb, wtick, clean,
                   wi>>

ca_ws ==
    /\ pc = "ca_ws"
    /\ pc' = "ws_poll"
    /\ wi' = EnterWait(IdleOnly)
    /\ UNCHANGED <<mframe, rxpc, rxq, last_state, envvars, stack, ret, step, hm, sb,
                   wtick, clean>>

(* ------------------------ sending.py: nudge_axis ---------------------- *)

\* sending.py 102-103
na_start ==
    /\ pc = "na_start"
    /\ send(0)
    /\ hm' = [hm EXCEPT !.nudges = @ + 1]
    /\ Call("wa_get", "na_move")
    /\ UNCHANGED <<mframe, rxpc, rxq, last_state, statq, step, sb, clean, wi>>

\* sending.py 104-105
na_move ==
    /\ pc = "na_move"
    /\ send(0)
    /\ Call("wa_get", "na_ws")
    /\ UNCHANGED <<mframe, rxpc, rxq, last_state, statq, step, hm, sb, clean, wi>>

\* sending.py 106
na_ws ==
    /\ pc = "na_ws"
    /\ Call("ws_poll", "na_g90")
    /\ wi' = EnterWait(IdleOnly)
    /\ UNCHANGED <<mframe, rxpc, rxq, last_state, envvars, step, hm, sb, wtick,
                   clean>>

\* sending.py 107-108: the wait_ack returns to the caller of nudge_axis
na_g90 ==
    /\ pc = "na_g90"
    /\ send(0)
    /\ pc' = "wa_get"
    /\ UNCHANGED <<mframe, rxpc, rxq, last_state, statq, stack, ret, step, hm, sb,
                   clean, wi>>


(* ----------------------- sending.py: homing_step ---------------------- *)

\* sending.py 110-111: the axis letter of "$H<axis>", "" for any other text
axis_from_home_cmd(cmd) ==
    CASE cmd = "$HZ" -> "Z"
      [] cmd = "$HA" -> "A"
      [] cmd = "$HY" -> "Y"
      [] cmd = "$HX" -> "X"
      [] OTHER -> ""

\* sending.py 128: the alarm texts that hold "alarm:9" or "alarm:8"
\* (a nudge on alarm 8 only)
Nudged_8 == {8}
Nudged == {8, 9}

\* a call of homing_step(cmd, retries): the locals, and during the call so
\* far the writes of the command, the calls of hard_clear (clears), those of
\* them made by clear_alarm_if_needed (pre), the calls of nudge_axis and the
\* recoveries of the alarm branch (recov)
EnterStep(cmd, n) ==
    [cmd |-> cmd, retries |-> n, attempt |-> 1, ack |-> None, writes |-> 0,
     clears |-> 0, pre |-> 0, nudges |-> 0, recov |-> 0, conf |-> 0]
NoStep == EnterStep("", 0)

\* sending.py 118-120: the next attempt begins with clear_alarm_if_needed;
\* after `retries` attempts the step has failed (line 138)
ho_attempt ==
    /\ pc = "ho_attempt"
    /\ IF hm.attempt > hm.retries
       THEN Return(Bool("homing_step", FALSE))
       ELSE Call("ca_check", "ho_send")
    /\ UNCHANGED <<mframe, rxpc, rxq, last_state, envvars, step, hm, sb, wtick,
                   clean, wi>>

\* sending.py 121-122
ho_send ==
    /\ pc = "ho_send"
    /\ send(Tag(hm.attempt))
    /\ hm' = [hm EXCEPT !.writes = @ + 1]
    /\ Call("wa_get", "ho_acked")
    /\ UNCHANGED <<mframe, rxpc, rxq, last_state, statq, step, sb, clean, wi>>

\* sending.py 123
ho_acked ==
    /\ pc = "ho_acked"
    /\ hm' = [hm EXCEPT !.ack = ret.ack]
    /\ Call("ws_poll", "ho_decide")
    /\ wi' = EnterWait(IdleOnly)
    /\ UNCHANGED <<mframe, rxpc, rxq, last_state, envvars, step, sb, wtick, clean>>

\* sending.py 124-137: what follows an attempt with reply ack and wait result
\* ok_idle.  "done": return True; "nudge": hard_clear, nudge_axis and the next
\* attempt; "clear": hard_clear and the next attempt
AfterHoming(cmd, ack, ok_idle) ==
    IF ack.kind = "ok" /\ ok_idle THEN "done"
    ELSE IF ack.kind = "alarm" /\ ack.code \in Nudged /\ axis_from_home_cmd(cmd) # ""
    THEN "nudge"
    ELSE "clear"

ho_decide ==
    /\ pc = "ho_decide"
    /\ LET todo == AfterHoming(hm.cmd, hm.ack, ret.ok)
           conf == Conforms(hm.conf, hm.attempt, hm.ack) IN
        CASE OffScript(conf) ->
                /\ pc' = "off_script"
                /\ hm' = [hm EXCEPT !.conf = conf]
                /\ UNCHANGED <<stack, ret>>
          [] todo = "done" ->
                /\ Return(Bool("homing_step", TRUE))
                /\ hm' = [hm EXCEPT !.conf = conf]
          [] todo = "nudge" ->
                /\ Call("hc_start", "ho_nudge")
                /\ hm' = [hm EXCEPT !.conf = conf, !.recov = @ + 1]
          [] todo = "clear" ->
                /\ Call("hc_start", "ho_next")
                /\ hm' = [hm EXCEPT !.conf = conf,
                                    !.recov = IF hm.ack.kind = "alarm" THEN @ + 1 ELSE @]
    /\ UNCHANGED <<mframe, rxpc, rxq, last_state, envvars, step, sb, wtick, clean,
                   wi>>

\* sending.py 132
ho_nudge ==
    /\ pc = "ho_nudge"
    /\ Call("na_start", "ho_next")
    /\ UNCHANGED <<mframe, rxpc, rxq, last_state, envvars, step, hm, sb, wtick,
                   clean, wi>>

\* sending.py 133, 135, 137: on to the next attempt
ho_next ==
    /\ pc = "ho_next"
    /\ hm' = [hm EXCEPT !.attempt = @ + 1]
    /\ pc' = "ho_attempt"
    /\ UNCHANGED <<mframe, rxpc, rxq, last_state, envvars, stack, ret, step, sb,
                   wtick, clean, wi>>

(* ---------------------- sending.py: send_blocking --------------------- *)

EnterBlocking(cmd, n, g90) ==
    [cmd |-> cmd, retries |-> n, attempt |-> 1, ack |-> None, force_g90 |-> g90]
NoBlocking == EnterBlocking("", 0, FALSE)

\* sending.py 85-86 and 99
sb_attempt ==
    /\ pc = "sb_attempt"
    /\ IF sb.attempt > sb.retries
       THEN Return(Bool("send_blocking", FALSE))
       ELSE Call("ca_check", "sb_g90")
    /\ UNCHANGED <<mframe, rxpc, rxq, last_state, envvars, step, hm, sb, wtick,
                   clean, wi>>

\* sending.py 87-89
sb_g90 ==
    /\ pc = "sb_g90"
    /\ IF sb.force_g90
       THEN send(0) /\ Call("wa_get", "sb_send")
       ELSE pc' = "sb_send" /\ UNCHANGED <<devq, wtick, stack, ret>>
    /\ UNCHANGED <<mframe, rxpc, rxq, last_state, statq, step, hm, sb, clean, wi>>

\* sending.py 90-92
sb_send ==
    /\ pc = "sb_send"
    /\ send(0)
    /\ Call("wa_get", "sb_acked")
    /\ UNCHANGED <<mframe, rxpc, rxq, last_state, statq, step, hm, sb, clean, wi>>

\* sending.py 93
sb_acked ==
    /\ pc = "sb_acked"
    /\ sb' = [sb EXCEPT !.ack = ret.ack]
    /\ Call("ws_poll", "sb_decide")
    /\ wi' = EnterWait(IdleOnly)
    /\ UNCHANGED <<mframe, rxpc, rxq, last_state, envvars, step, hm, wtick, clean>>

\* sending.py 94-98
sb_decide ==
    /\ pc = "sb_decide"
    /\ IF last_state = "Alarm" \/ sb.ack.kind = "alarm" \/ ~ret.ok
       THEN /\ Call("hc_start", "sb_attempt")
            /\ sb' = [sb EXCEPT !.attempt = @ + 1]
       ELSE /\ Return(Bool("send_blocking", TRUE))
            /\ sb' = sb
    /\ UNCHANGED <<mframe, rxpc, rxq, last_state, envvars, step, hm, wtick, clean,
                   wi>>

(* --------------------------- sending.py: main ------------------------- *)

HomingStep(c) == [kind |-> "homing", cmd |-> c]
Blocking(c) == [kind |-> "blocking", cmd |-> c]

\* sending.py 216-246: the eight steps that come before the file
sequence ==
    << HomingStep("$HZ"), Blocking("G0 Z180"), HomingStep("$HA"),
       HomingStep("$HY"), Blocking("G0 Y45"), HomingStep("$HZ"),
       HomingStep("$HX"), Blocking("G0 X45 Y45 Z45 A45") >>

\* retries=3 of the three send_blocking calls
BlockingRetries == 3

\* sending.py 210-211: the port is opened and hard_clear runs before the
\* receiver thread exists
m_start ==
    /\ pc = "m_start"
    /\ Call("hc_start", "m_thread")
    /\ UNCHANGED <<mframe, rxpc, rxq, last_state, envvars, step, hm, sb, wtick,
                   clean, wi>>

\* sending.py 213-214: the receiver thread starts
m_thread ==
    /\ pc = "m_thread"
    /\ rxpc' = "read"
    /\ step' = 1
    /\ pc' = "m_step"
    /\ UNCHANGED <<mframe, rxq, last_state, envvars, stack, ret, hm, sb, wtick,
                   clean, wi>>

\* sending.py 217-246: call the next step (the model follows the sequence for
\* its first scale.steps steps); after the last the file is streamed
m_step ==
    /\ pc = "m_step"
    /\ step <= scale.steps
    /\ IF step > Len(sequence)
       THEN /\ pc' = "stream"
            /\ UNCHANGED <<stack, ret, hm, sb>>
       ELSE IF sequence[step].kind = "homing"
       THEN /\ Call("ho_attempt", "m_ret")
            /\ hm' = EnterStep(sequence[step].cmd, args.homing_retries)
            /\ sb' = sb
       ELSE /\ Call("sb_attempt", "m_ret")
            /\ sb' = EnterBlocking(sequence[step].cmd, BlockingRetries, TRUE)
            /\ hm' = hm
    /\ UNCHANGED <<mframe, rxpc, rxq, last_state, envvars, step, wtick, clean, wi>>

\* a step that failed closes the port and exits with status 3
m_ret ==
    /\ pc = "m_ret"
    /\ IF ret.ok
       THEN step' = step + 1 /\ pc' = "m_step"
       ELSE step' = step /\ pc' = "exit3"
    /\ hm' = NoStep
    /\ sb' = NoBlocking
    /\ wi' = NoWait
    /\ UNCHANGED <<mframe, rxpc, rxq, last_state, envvars, stack, ret, wtick, clean>>

(* ----------------------- sending.py: stream_file ---------------------- *)

\* sending.py 154 and 167: a stripped line that is empty or starts with "("
\* or ";" is skipped
\* (a stream that skips blank lines only)
Skipped_blank(line) == line = ""
Skipped(line) == line \in {"", "(c)", "; c"}

\* a call of stream_file(path, line_retries).  file: the lines of the file;
\* readable: whether open succeeds; lineno, attempt, ack: the locals; started
\* and ended: the START STREAM and END STREAM lines printed; n: the writes of
\* the present line; kinds: the replies its attempts got; clears: the calls of
\* hard_clear so far, base: those made before the present line; g90: whether G90 was written
\* after the last of them; sent: the file lines written so far; conf: as in
\* Conforms; result: what the call returned
EnterStream(file, readable) ==
    [file |-> file, readable |-> readable, lineno |-> 0, attempt |-> 0,
     ack |-> None, started |-> 0, ended |-> 0, n |-> 0, kinds |-> <<>>,
     clears |-> 0, base |-> 0, g90 |-> FALSE, sent |-> <<>>, conf |-> 0, result |-> "none"]
NoStream == EnterStream(<<>>, TRUE)

\* sending.py 141-147: the start marker, then clear_alarm_if_needed
sf_start ==
    /\ pc = "stream"
    /\ sf' = [sf EXCEPT !.started = @ + 1]
    /\ Call("ca_check", "sf_ws")
    /\ UNCHANGED <<mframe_sf, rxpc, rxq, last_state, envvars, step, hm, sb, wtick,
                   clean, wi>>

\* sending.py 148: the result of the wait is not looked at
sf_ws ==
    /\ pc = "sf_ws"
    /\ Call("ws_poll", "sf_open")
    /\ wi' = EnterWait(IdleOnly)
    /\ UNCHANGED <<mframe, rxpc, rxq, last_state, envvars, step, hm, sb, wtick,
                   clean>>

\* sending.py 150-160: a file that cannot be opened ends the call with False
sf_open ==
    /\ pc = "sf_open"
    /\ IF sf.readable
       THEN pc' = "sf_line" /\ sf' = sf
       ELSE pc' = "m_done" /\ sf' = [sf EXCEPT !.result = "false"]
    /\ wi' = NoWait
    /\ UNCHANGED <<mframe_sf, rxpc, rxq, last_state, envvars, stack, ret, step, hm,
                   sb, wtick, clean>>

\* sending.py 164-169 and 190-191: the next line of the file; after the last
\* the end marker is printed and the call returns True
sf_line ==
    /\ pc = "sf_line"
    /\ IF sf.lineno >= Len(sf.file)
       THEN /\ pc' = "m_done"
            /\ sf' = [sf EXCEPT !.ended = @ + 1, !.result = "true"]
       ELSE /\ pc' = IF Skipped(sf.file[sf.lineno + 1]) THEN "sf_line"
                     ELSE "sf_attempt"
            /\ sf' = [sf EXCEPT !.lineno = @ + 1, !.attempt = 1, !.ack = None,
                                !.n = 0, !.kinds = <<>>, !.base = sf.clears,
                                !.g90 = FALSE]
    /\ wi' = NoWait
    /\ UNCHANGED <<mframe_sf, rxpc, rxq, last_state, envvars, stack, ret, step, hm,
                   sb, wtick, clean>>

\* sending.py 170-171
sf_attempt ==
    /\ pc = "sf_attempt"
    /\ Call("ca_check", "sf_send")
    /\ UNCHANGED <<mframe, rxpc, rxq, last_state, envvars, step, hm, sb, wtick,
                   clean, wi>>

\* sending.py 172-173
sf_send ==
    /\ pc = "sf_send"
    /\ send(Tag(Len(sf.sent) + 1))
    /\ sf' = [sf EXCEPT !.n = @ + 1, !.sent = Append(@, sf.file[sf.lineno])]
    /\ Call("wa_get", "sf_acked")
    /\ UNCHANGED <<mframe_sf, rxpc, rxq, last_state, statq, step, hm, sb, clean, wi>>

\* sending.py 174-189: what follows an attempt that got ack.  "next": on to
\* the next line; "clear": clear_alarm_if_needed and on to the next line;
\* "recover": hard_clear, G90 and then the same line again or the end
\* (a stream that goes on to the next line after an alarm)
AfterLine_skip(ack) ==
    IF ack.kind = "ok" THEN "next" ELSE "clear"
AfterLine(ack) ==
    IF ack = None THEN "clear"
    ELSE IF ack.kind = "ok" THEN "next"
    ELSE IF ack.kind = "alarm" THEN "recover"
    ELSE "clear"

sf_acked ==
    /\ pc = "sf_acked"
    /\ LET conf == Conforms(sf.conf, Len(sf.sent), ret.ack) IN
        /\ sf' = [sf EXCEPT !.ack = ret.ack, !.kinds = Append(@, ret.ack.kind),
                            !.g90 = FALSE, !.conf = conf]
        /\ CASE OffScript(conf) ->
                    pc' = "off_script" /\ UNCHANGED <<stack, ret>>
             [] ~OffScript(conf) /\ AfterLine(ret.ack) = "next" ->
                    pc' = "sf_line" /\ UNCHANGED <<stack, ret>>
             [] ~OffScript(conf) /\ AfterLine(ret.ack) = "clear" ->
                    Call("ca_check", "sf_line")
             [] ~OffScript(conf) /\ AfterLine(ret.ack) = "recover" ->
                    Call("hc_start", "sf_g90")
    /\ UNCHANGED <<mframe_sf, rxpc, rxq, last_state, envvars, step, hm, sb, wtick,
                   clean, wi>>

\* sending.py 181-182
sf_g90 ==
    /\ pc = "sf_g90"
    /\ send(0)
    /\ sf' = [sf EXCEPT !.g90 = TRUE]
    /\ Call("wa_get", "sf_retry")
    /\ UNCHANGED <<mframe_sf, rxpc, rxq, last_state, statq, step, hm, sb, clean, wi>>

\* sending.py 183-187: the same line again while attempt <= line_retries,
\* otherwise the call returns False
\* (a stream that never gives up on a line)
MayRetry_always(attempt, line_retries) == TRUE
MayRetry(attempt, line_retries) == attempt <= line_retries
sf_retry ==
    /\ pc = "sf_retry"
    /\ IF MayRetry(sf.attempt, args.line_retries)
       THEN pc' = "sf_attempt" /\ sf' = [sf EXCEPT !.attempt = @ + 1]
       ELSE pc' = "m_done" /\ sf' = [sf EXCEPT !.result = "false"]
    /\ wi' = NoWait
    /\ UNCHANGED <<mframe_sf, rxpc, rxq, last_state, envvars, stack, ret, step, hm,
                   sb, wtick, clean>>

\* sending.py 249-252: the outcome is printed and the port is closed
m_done ==
    /\ pc = "m_done"
    /\ pc' = "closed"
    /\ rxpc' = "exit"
    /\ UNCHANGED <<mframe, rxq, last_state, envvars, stack, ret, step, hm, sb, wtick,
                   clean, wi>>

(* --------------------------- specifications --------------------------- *)

InitShared ==
    /\ rxq = <<>>
    /\ stop = FALSE
    /\ workq = <<>>
    /\ devq = <<>>
    /\ statq = <<>>
    /\ rxline = None
    /\ stack = <<>>
    /\ ret = Bool("", FALSE)
    /\ sg = NoSendGcode
    /\ step = 0
    /\ sh = NoHoming
    /\ hm = NoStep
    /\ sb = NoBlocking
    /\ wire = <<>>
    /\ acked = <<>>
    /\ enq = <<>>
    /\ wtick = 0
    /\ clean = TRUE
    /\ wi = NoWait
    /\ mh = NoMacro

\* the sequences of at most n elements of S
SeqsUpTo(S, n) == UNION {[1..k -> S] : k \in 0..n}

\* home.py started on a stdin of plain command lines
Init ==
    /\ InitShared
    /\ last_state = "Unknown"
    /\ sf = NoStream
    /\ variant = "home"
    /\ args \in [homing_retries : {1}, line_retries : 0..MaxLineRetries]
    /\ device = [script |-> <<>>, buf |-> DevCap, faults |-> FALSE]
    /\ scale = [rxq |-> RxqCap, steps |-> 0]
    /\ stdin \in SeqsUpTo({Gcode(c) : c \in Cmds}, MaxLines)
    /\ mainpc = "read"
    /\ rxpc = "read"
    /\ pc = "sl_get"

Next ==
    \/ dev_silent
    \/ rx_loop
    \/ rx_put
    \/ main_read
    \/ main_put
    \/ main_eof
    \/ main_join
    \/ sl_get
    \/ sl_gcode
    \/ sg_send
    \/ sg_wait

Spec == Init /\ [][Next]_vars

\* home.py started on a stdin that asks for the homing macro
InitHome ==
    /\ InitShared
    /\ last_state = "Unknown"
    /\ sf = NoStream
    /\ variant = "home"
    /\ args \in [homing_retries : 1..MaxHomingRetries, line_retries : {1}]
    /\ device = [script |-> <<>>, buf |-> 1, faults |-> FALSE]
    /\ scale = [rxq |-> RxqCap, steps |-> Len(steps) + 1]
    /\ stdin \in {<<HomeItem>>, <<HomeItem, Gcode("G0 X1")>>}
    /\ mainpc = "read"
    /\ rxpc = "read"
    /\ pc = "sl_get"

\* (this firmware holds one command, so the replies that wait in the ack
\* queue never fill it and the receiver is never left inside put)
NextHome ==
    \/ dev_silent
    \/ rx_loop
    \/ main_read
    \/ main_put
    \/ main_eof
    \/ main_join
    \/ sl_get
    \/ sl_gcode
    \/ sg_send
    \/ sg_wait
    \/ sl_home
    \/ hs_step
    \/ hs_ret
    \/ sh_send
    \/ sh_loop
    \/ sh_poll
    \/ sh_check
    \/ sh_after
    \/ sh_next
    \/ sh_moved
    \/ ua_send
    \/ ua_drain
    \/ wm_start
    \/ wm_loop
    \/ wi_start
    \/ wi_loop
    \/ wi_confirm
    \/ wi_read2

SpecHome == InitHome /\ [][NextHome]_vars

\* the firmwares tried for one homing step: alarm:9 twice and then ok, an
\* alarm that is not 8 or 9, an error
Scripts ==
    { <<AlarmLine(9, 0), AlarmLine(9, 0), OkLine(0)>>,
      <<AlarmLine(3, 0)>>,
      <<ErrorLine(9, 0)>> }

\* --homing-retries / --home_retries: the default of both programs
DefaultTries == 5

\* a session that reaches its first homing step: home.py on a stdin that asks
\* for the macro, or sending.py from its start
InitHoming ==
    /\ InitShared
    /\ last_state = "Unknown"
    /\ sf = NoStream
    /\ variant \in {"home", "sending"}
    /\ args = [homing_retries |-> DefaultTries, line_retries |-> 1]
    /\ device \in [script : Scripts, buf : {1}, faults : {FALSE}]
    /\ scale = [rxq |-> RxqCap, steps |-> 1]
    /\ IF variant = "home"
       THEN /\ stdin = <<HomeItem>>
            /\ mainpc = "read"
            /\ rxpc = "read"
            /\ pc = "sl_get"
       ELSE /\ stdin = <<>>
            /\ mainpc = "done"
            /\ rxpc = "idle"
            /\ pc = "m_start"

NextSending ==
    \/ rx_loop
    \/ rx_put
    \/ wa_get
    \/ ws_poll
    \/ ws_check
    \/ hc_start
    \/ hc_s20
    \/ hc_g90
    \/ hc_ws
    \/ ca_check
    \/ ca_ws
    \/ na_start
    \/ na_move
    \/ na_ws
    \/ na_g90
    \/ ho_attempt
    \/ ho_send
    \/ ho_acked
    \/ ho_decide
    \/ ho_nudge
    \/ ho_next
    \/ m_start
    \/ m_thread
    \/ m_step
    \/ m_ret

NextHoming ==
    \/ rx_loop
    \/ rx_put
    \/ main_read
    \/ main_put
    \/ main_eof
    \/ main_join
    \/ sl_get
    \/ sl_home
    \/ hs_step
    \/ hs_ret
    \/ sh_send
    \/ sh_loop
    \/ sh_poll
    \/ sh_check
    \/ sh_after
    \/ sh_next
    \/ sh_moved
    \/ ua_send
    \/ ua_drain
    \/ wm_start
    \/ wm_loop
    \/ wi_start
    \/ wi_loop
    \/ wi_confirm
    \/ wi_read2
    \/ NextSending

SpecHoming == InitHoming /\ [][NextHoming]_vars

\* the streams tried: a file and the replies of the firmware to the successive
\* writes of its lines (every other command is answered by ok)
Stream(f, sc, rd) == [file |-> f, script |-> sc, readable |-> rd]
Streams ==
    { Stream(<<"; c", "">>, <<OkLine(0)>>, TRUE),
      Stream(<<"G1 X1", "G1 Y2">>, <<OkLine(0), OkLine(0)>>, TRUE),
      Stream(<<"G1 X1", "G1 Y2">>, <<AlarmLine(3, 0), OkLine(0), OkLine(0)>>, TRUE),
      Stream(<<"(c)", "G1 X1">>, <<AlarmLine(3, 0), AlarmLine(9, 0)>>, TRUE),
      Stream(<<"G1 X1", "G1 Y2">>, <<ErrorLine(9, 0), OkLine(0)>>, TRUE),
      Stream(<<"G1 X1">>, <<OkLine(0)>>, FALSE) }

\* sending.py at the call of stream_file (line 249): the eight steps are over
\* and the receiver runs
InitStream ==
    /\ InitShared
    /\ last_state \in {"Idle", "Alarm"}
    /\ variant = "sending"
    /\ args \in [homing_retries : {1}, line_retries : 0..MaxStreamRetries]
    /\ \E st \in Streams :
          /\ device = [script |-> st.script, buf |-> 1, faults |-> FALSE]
          /\ sf = EnterStream(st.file, st.readable)
    /\ scale = [rxq |-> RxqCap, steps |-> 0]
    /\ stdin = <<>>
    /\ mainpc = "done"
    /\ rxpc = "read"
    /\ pc = "stream"

NextStream ==
    \/ rx_loop
    \/ rx_put
    \/ wa_get
    \/ ws_poll
    \/ ws_check
    \/ hc_start
    \/ hc_s20
    \/ hc_g90
    \/ hc_ws
    \/ ca_check
    \/ ca_ws
    \/ sf_start
    \/ sf_ws
    \/ sf_open
    \/ sf_line
    \/ sf_attempt
    \/ sf_send
    \/ sf_acked
    \/ sf_g90
    \/ sf_retry
    \/ m_done

SpecStream == InitStream /\ [][NextStream]_vars

\* home.py or sender.py on a stdin of plain command lines, with a serial line
\* on which a read or a write may fail
InitFault ==
    /\ InitShared
    /\ sf = NoStream
    /\ last_state = "Unknown"
    /\ variant \in {"home", "sender"}
    /\ args = [homing_retries |-> 1, line_retries |-> MaxLineRetries]
    /\ device = [script |-> <<>>, buf |-> 1, faults |-> TRUE]
    /\ scale = [rxq |-> RxqCap, steps |-> 0]
    /\ stdin \in SeqsUpTo({Gcode(c) : c \in Cmds}, MaxLines)
    /\ mainpc = "read"
    /\ rxpc = "read"
    /\ pc = "sl_get"

NextFault ==
    \/ dev_silent
    \/ rx_loop
    \/ rx_fail
    \/ main_read
    \/ main_put
    \/ main_eof
    \/ main_join
    \/ sl_get
    \/ sl_gcode
    \/ sl_eof
    \/ sg_send
    \/ sg_wait
    \/ wm_start
    \/ wm_loop
    \/ wi_start
    \/ wi_loop
    \/ wi_confirm
    \/ wi_read2

SpecFault == InitFault /\ [][NextFault]_vars

\* home.py or sender.py on a stdin that asks for the macro, followed through
\* its first homing step
InitRetry ==
    /\ InitShared
    /\ sf = NoStream
    /\ last_state = "Unknown"
    /\ variant \in {"home", "sender"}
    /\ args \in [homing_retries : 1..MaxTries, line_retries : {1}]
    /\ device = [script |-> <<>>, buf |-> 1, faults |-> FALSE]
    /\ scale = [rxq |-> RxqCap, steps |-> 1]
    /\ stdin = <<HomeItem>>
    /\ mainpc = "read"
    /\ rxpc = "read"
    /\ pc = "sl_get"

NextRetry ==
    \/ dev_silent
    \/ rx_loop
    \/ main_read
    \/ main_put
    \/ main_eof
    \/ main_join
    \/ sl_get
    \/ sl_home
    \/ hs_step
    \/ hs_ret
    \/ sg_send
    \/ sg_wait
    \/ sh_send
    \/ sh_loop
    \/ sh_poll
    \/ sh_check
    \/ sh_after
    \/ sh_next
    \/ sh_moved
    \/ shs_send
    \/ shs_ret
    \/ ua_send
    \/ ua_drain
    \/ wm_start
    \/ wm_loop
    \/ wi_start
    \/ wi_loop
    \/ wi_confirm
    \/ wi_read2

SpecRetry == InitRetry /\ [][NextRetry]_vars

\* sending.py from its start through its first homing step, with a firmware
\* that answers the first write of the homing command with alarm:8
InitNudge ==
    /\ InitShared
    /\ sf = NoStream
    /\ last_state = "Unknown"
    /\ variant = "sending"
    /\ args = [homing_retries |-> MaxTries, line_retries |-> 1]
    /\ device = [script |-> <<AlarmLine(8, 0), OkLine(0)>>, buf |-> 1, faults |-> FALSE]
    /\ scale = [rxq |-> RxqCap, steps |-> 1]
    /\ stdin = <<>>
    /\ mainpc = "done"
    /\ rxpc = "idle"
    /\ pc = "m_start"

SpecNudge == InitNudge /\ [][NextSending]_vars

\* home.py on a stdin that asks for the macro and then holds as many command
\* lines as the work queue has slots; the macro is followed through its first
\* homing step
InitTeardown ==
    /\ InitShared
    /\ sf = NoStream
    /\ last_state = "Unknown"
    /\ variant = "home"
    /\ args = [homing_retries |-> 1, line_retries |-> 1]
    /\ device = [script |-> <<>>, buf |-> 1, faults |-> FALSE]
    /\ scale = [rxq |-> RxqCap, steps |-> 1]
    /\ stdin \in {<<HomeItem>> \o [i \in 1..n |-> Gcode("G0 X1")] : n \in 0..WorkCap}
    /\ mainpc = "read"
    /\ rxpc = "read"
    /\ pc = "sl_get"

NextTeardown ==
    \/ dev_silent
    \/ rx_loop
    \/ main_read
    \/ main_put
    \/ main_eof
    \/ main_join
    \/ sl_get
    \/ sl_home
    \/ hs_step
    \/ hs_ret
    \/ sh_send
    \/ sh_loop
    \/ sh_poll
    \/ sh_check
    \/ sh_after
    \/ sh_next
    \/ sh_moved
    \/ ua_send
    \/ ua_drain
    \/ wm_start
    \/ wm_loop
    \/ wi_start
    \/ wi_loop
    \/ wi_confirm
    \/ wi_read2

\* the main thread is scheduled: a step it can take it takes in the end (the
\* puts of home.py 329-334 and the join of 336 have no timeout, so each ends
\* only when it can be done)
MainRuns ==
    /\ WF_vars(main_read)
    /\ WF_vars(main_put)
    /\ WF_vars(main_eof)
    /\ WF_vars(main_join)

SpecTeardown == InitTeardown /\ [][NextTeardown]_vars /\ MainRuns

(* ------------------------------ properties ---------------------------- *)

\* the sequence 1, 2, ..., n
UpTo(n) == [i \in 1..n |-> i]

\* C1: with a firmware that takes every command and answers each with ok
\* before the ack timeout (clean), the lines are written in the order they
\* were enqueued, each once, and line k+1 is written only after the ok that
\* answers line k was taken from the ack queue
C1_InOrder ==
    clean =>
        /\ Len(wire) <= Len(enq)
        /\ wire = SubSeq(enq, 1, Len(wire))
        /\ acked = UpTo(IF pc = "sg_wait" THEN Len(wire) - 1 ELSE Len(wire))
C1_Witness ==
    /\ clean
    /\ pc = "exit"
    /\ Len(wire) = MaxLines
    /\ wire[1] # wire[2]
    /\ acked = UpTo(MaxLines)

\* C2: at most one written command awaits its reply: the commands the
\* firmware has not answered and the replies nobody has taken from the ack
\* queue are together never more than one
Outstanding ==
    Len(devq) + Len(SelectSeq(rxq, IsAck)) + (IF rxpc = "put" THEN 1 ELSE 0)
C2_OneOutstanding == Outstanding <= 1

\* C3: wait_until_idle returns True only after a read of Idle, a status
\* request after it, and a second read of Idle; a turn whose second read is
\* not Idle does not return True
C3_DoubleConfirm ==
    wi.result = "true" =>
        /\ wi.first = "Idle"
        /\ wi.req
        /\ wi.second = "Idle"
C3_Witness ==
    /\ wi.result = "true"
    /\ wi.first = "Idle"
    /\ wi.second = "Idle"
    /\ pc = "hs_ret"

\* C4: a wait returns success only when the receiver has stored a report of
\* the awaited state that answers a status request made during the wait
C4_FreshReport == wi.result = "true" => wi.fresh

\* the firmware of the scenario of C5: alarm:9 to the first two writes of the
\* homing command, ok to the third
C5Script == <<AlarmLine(9, 0), AlarmLine(9, 0), OkLine(0)>>
\* the homing step has returned after three attempts that took these replies
HomeScenario ==
    /\ variant = "home" /\ device.script = C5Script
    /\ pc = "hs_ret" /\ ret.fn = "homing" /\ sh.conf = 3
SendingScenario ==
    /\ variant = "sending" /\ device.script = C5Script
    /\ pc = "m_ret" /\ ret.fn = "homing_step" /\ hm.conf = 3

\* C5 (amended): in the scenario the step returns success after three writes
\* of the homing command; home.py has unlocked twice; sending.py has run the
\* recovery of the alarm branch twice, nudge_axis twice, and hard_clear twice
\* plus once for every attempt that began with the tracked state Alarm
C5_ThreeWritesTwoRecoveries ==
    /\ HomeScenario => ret.ok /\ sh.writes = 3 /\ sh.unlocks = 2
    /\ SendingScenario =>
          /\ ret.ok /\ hm.writes = 3
          /\ hm.recov = 2 /\ hm.nudges = 2
          /\ hm.clears = 2 + hm.pre
C5_Witness == SendingScenario /\ ret.ok /\ hm.nudges = 2 /\ hm.pre = 1
\* C5 as stated: hard_clear has been invoked exactly twice
C5_ExactlyTwoClears ==
    /\ HomeScenario => ret.ok /\ sh.writes = 3 /\ sh.unlocks = 2
    /\ SendingScenario => ret.ok /\ hm.writes = 3 /\ hm.clears = 2 /\ hm.nudges = 2

\* _perform_home_sequence has returned False
MacroFailed == ret.fn = "macro" /\ ~ret.ok

\* the last reply a homing step took is an alarm other than 8 and 9
FatalHome == variant = "home" /\ sh.ack.kind = "alarm" /\ sh.ack.code \notin {8, 9}
FatalSending ==
    variant = "sending" /\ hm.ack.kind = "alarm" /\ hm.ack.code \notin {8, 9}

C7_NeverBlocks == rxpc = "put" => ENABLED rx_put

\* the step of the receiver that ends a put on a queue that is still full
Overflow == rxpc = "put" /\ rxpc' # "put" /\ Len(rxq) >= scale.rxq
\* C8 (amended): on overflow the reply that has just arrived is discarded with
\* a warning, and the queue keeps the replies it held, in their order
C8_NewestDropped == [][Overflow => rxq' = rxq /\ rxpc' = "warn"]_vars
C8_Witness == rxpc = "warn" /\ Len(rxq) = scale.rxq
\* C8 as stated: the oldest reply is discarded and the new one is enqueued
C8_OldestDropped == [][Overflow => rxq' = Append(Tail(rxq), rxline)]_vars

\* C9: once the macro has failed the dispatcher has set _stop and is gone,
\* and nothing is written to the link from then on
C9_NoDispatchAfterAbort ==
    /\ [](MacroFailed /\ pc # "sl_home" => stop /\ pc = "abort")
    /\ [][MacroFailed => wtick' = wtick /\ wire' = wire]_vars
C9_Witness ==
    /\ pc = "abort"
    /\ stop
    /\ workq # <<>>
    /\ Head(workq).type = "gcode"

\* C10: a call of send_gcode with retries >= 1 writes the command between one
\* and retries times, ends at the first ok, goes on after a timeout or another
\* reply while attempts remain, returns True exactly when an attempt got ok,
\* and on failure returns the last reply, or "timeout" when there was none
Returned == pc = "sl_gcode" /\ sg.retries >= 1
C10_Contract ==
    /\ pc = "sg_wait" => Len(sg.log) + 1 = sg.attempt /\ sg.attempt <= sg.retries
    /\ Returned =>
        LET n == Len(sg.log) IN
        /\ n >= 1 /\ n <= sg.retries
        /\ \A i \in 1..(n - 1) : sg.log[i].kind # "ok"
        /\ ret.ok <=> sg.log[n].kind = "ok"
        /\ ~ret.ok => n = sg.retries
        /\ ret.ok => ret.ack = sg.log[n]
        /\ ~ret.ok =>
              ret.ack = IF sg.log[n] = None THEN TimeoutStr ELSE sg.log[n]
C10_Witness ==
    /\ Returned
    /\ ~ret.ok
    /\ Len(sg.log) = MaxLineRetries
    /\ sg.log[1] = None
    /\ sg.log[MaxLineRetries].kind = "alarm"

\* the reply the last attempt of the present line got
LastKind == IF sf.kinds = <<>> THEN "" ELSE sf.kinds[Len(sf.kinds)]

\* C11: a file line is written at most 1 + line_retries times; it is written
\* again only after an alarm reply, a hard_clear and a G90; the stream leaves
\* a line only after a reply other than alarm, so after ok the line has been
\* written once more than it got alarms; the stream fails only when the last
\* allowed attempt got an alarm, and nothing is written after that
C11_AlarmRetried ==
    /\ [](sf.n <= 1 + args.line_retries)
    /\ [](pc = "sf_send" /\ sf.attempt > 1 =>
            /\ LastKind = "alarm"
            /\ sf.g90
            /\ sf.clears - sf.base >= sf.attempt - 1
            /\ sf.n = sf.attempt - 1)
    /\ [](pc = "sf_line" /\ sf.n > 0 =>
            /\ LastKind # "alarm"
            /\ sf.n = Len(sf.kinds)
            /\ \A i \in 1..(sf.n - 1) : sf.kinds[i] = "alarm")
    /\ [](sf.result = "false" /\ sf.readable =>
            /\ LastKind = "alarm"
            /\ sf.n = 1 + args.line_retries
            /\ sf.ended = 0)
    /\ [][sf.result = "false" => wtick' = wtick /\ sf.sent' = sf.sent]_vars
C11_Witness ==
    /\ pc = "closed"
    /\ sf.result = "true"
    /\ sf.sent = <<"G1 X1", "G1 X1", "G1 Y2">>
    /\ sf.clears >= 1

\* C12: when stream_file has returned, the start marker and the end marker
\* have each been printed once
C12_MarkersOnce == pc = "closed" => sf.started = 1 /\ sf.ended = 1

\* the file streamed has no line that is a command
OnlyComments ==
    /\ sf.started = 1
    /\ sf.readable
    /\ \A i \in DOMAIN sf.file : sf.file[i] \notin {"G1 X1", "G1 Y2"}
\* a step that writes a command line (a status query is not one)
CommandWrite == wtick' # wtick /\ pc # "ws_poll"

\* C13 (amended): a stream of a file without commands writes no line of the
\* file and returns True with both markers printed once; the only command
\* lines it writes are those of a hard_clear, which runs only when the tracked
\* state is Alarm at a call of clear_alarm_if_needed
C13_NoFileLine ==
    /\ [](OnlyComments => sf.sent = <<>> /\ sf.result # "false")
    /\ [](OnlyComments /\ pc = "closed" =>
            sf.result = "true" /\ sf.started = 1 /\ sf.ended = 1)
    /\ [][OnlyComments /\ CommandWrite => pc \in {"hc_start", "hc_s20", "hc_g90"}]_vars
    /\ [][OnlyComments /\ pc' = "hc_start" /\ pc # "hc_start" =>
            pc = "ca_check" /\ last_state = "Alarm"]_vars
C13_Witness ==
    /\ OnlyComments
    /\ pc = "closed"
    /\ sf.result = "true"
    /\ sf.clears = 1
\* C13 as stated: no command line at all is written
C13_ZeroCommands ==
    /\ [](OnlyComments /\ pc = "closed" =>
            sf.result = "true" /\ sf.started = 1 /\ sf.ended = 1)
    /\ [][OnlyComments => ~CommandWrite]_vars

\* C14: the first line of the file is written only while the tracked state
\* is Idle
C14_IdleBeforeFirstLine ==
    pc = "sf_send" /\ sf.sent = <<>> => last_state = "Idle"

\* C15: a failed read does not end the receiver: the thread ends only when
\* _stop is set
C15_ReceiverSurvives == rxpc = "exit" => stop

\* C16: a write that fails is a failed attempt of send_gcode: the call goes
\* on to the next attempt or returns to the loop, and the dispatcher lives
C16_WriteFailureRetried ==
    [][pc = "sg_send" /\ sg.retries >= 1 =>
          pc' \in {"sg_wait", "sg_send", "sl_gcode"}]_vars

\* the commands of the macro, in its order
MacroOrder ==
    <<"$HZ", "g0 z180", "$HA", "$HY", "g0 y45", "$HZ", "$HX", "g0 x45 y45 z45 a45">>

\* C17: the step commands written so far are the first ones of the fixed
\* list, in its order; the command of a step is written only after every
\* earlier step, the motion wait of the step before it included, returned
\* True; the macro returns True only after all sixteen steps did
C17_FixedOrder ==
    /\ Len(mh.cmds) <= Len(MacroOrder)
    /\ mh.cmds = SubSeq(MacroOrder, 1, Len(mh.cmds))
    /\ mh.oks = UpTo(Len(mh.oks))
    /\ Len(mh.oks) >= 2 * (Len(mh.cmds) - 1)
    /\ ret.fn = "macro" /\ ret.ok =>
          mh.oks = UpTo(2 * Len(MacroOrder)) /\ mh.cmds = MacroOrder
C17_Witness ==
    /\ ret.fn = "macro"
    /\ ret.ok
    /\ mh.cmds = MacroOrder
    /\ pc = "exit"

\* the dispatcher thread has ended
DispatcherGone == pc \in {"exit", "abort", "crashed", "dead"}
\* C18: when the dispatcher has ended and no macro has failed, every command
\* that was enqueued has been written to the link
C18_Drained ==
    DispatcherGone /\ ~MacroFailed =>
        /\ Len(wire) >= Len(enq)
        /\ \A i \in DOMAIN enq : \E j \in DOMAIN wire : wire[j] = enq[i]

\* a homing step has returned to the macro
HomingReturned == pc = "hs_ret" /\ ret.fn = "homing"
\* the attempt that has just ended got no reply and saw no state but Idle
\* (home.py), or got no reply within the ack timeout (sender.py)
\* and the dispatcher takes its step
SilentHome == pc = "sh_after" /\ sh.ack = None /\ ~sh.started /\ pc' # pc
SilentSender == pc = "shs_ret" /\ ~ret.ok /\ ret.ack = TimeoutStr /\ pc' # pc
\* the step goes on to unlock_after_alarm and from there to the next attempt
Recovers == pc' = "ua_send" /\ Head(stack') = "sh_next" /\ sh'.unlocks = sh.unlocks + 1

\* what C19 says of both programs: at most max_tries writes; the unlock is
\* followed by the next attempt; a step that used all attempts returns False
AtMostMaxTries ==
    /\ [](sh.writes <= sh.max_tries)
    /\ [][pc = "sh_next" /\ pc' # pc =>
            sh'.i = sh.i + 1 /\ pc' \in {"sh_send", "shs_send"}]_vars
    /\ [](HomingReturned /\ sh.i > sh.max_tries => ~ret.ok /\ sh.writes = sh.max_tries)

C20_NudgeOnlyOn9 ==
    pc = "ho_nudge" =>
        /\ hm.ack.kind = "alarm"
        /\ hm.ack.code = 9
        /\ axis_from_home_cmd(hm.cmd) # ""

\* send_gcode has returned failure to the loop for a queued line
LineFailed == ret.fn = "send_gcode" /\ ~ret.ok

LinkReset == pc = "hc_start" /\ pc' # pc

\* C22: the tracked state is Unknown until the receiver has run, and a reset
\* of the link sets it back to Unknown, so that what clear_alarm_if_needed
\* and the waits read after the reset is not a state stored before it
C22_UnknownAfterReset ==
    /\ [](rxpc = "idle" => last_state = "Unknown")
    /\ [][LinkReset => last_state' = "Unknown"]_vars

\* the write that attempt i of the present call of send_gcode made, as the
\* history names it, once the call has returned to the loop
WriteOf(i) == Len(wire) - Len(sg.log) + i

\* C23: every reply that an attempt of send_gcode took from the ack queue is
\* the reply the firmware gave to the write of that attempt
C23_ReplyMatchesWrite ==
    pc = "sl_gcode" =>
        \A i \in DOMAIN sg.log : sg.log[i] # None => sg.log[i].re = WriteOf(i)

\* the states in which the firmware is moving
MotionStates == {"Run", "Home", "Hold", "Jog"}
\* a step of the start watch of home.py that sets started
SetsStarted == pc \in {"sh_loop", "sh_check"} /\ ~sh.started /\ sh'.started

\* C24: send_homing_with_retries of home.py sets started only on an ok reply
\* or on a read of a motion state, and goes on to the motion wait only when
\* started is set; a tracked state of Alarm or Unknown does not set it
C24_StartedOnOkOrMotion ==
    /\ [][SetsStarted =>
            \/ pc = "sh_loop" /\ rxq # <<>> /\ Head(rxq).kind = "ok"
            \/ pc = "sh_check" /\ last_state \in MotionStates]_vars
    /\ [][pc = "sh_after" /\ pc' = "wm_start" => sh.started]_vars

\* main has joined the dispatcher and set _stop for the receiver
TornDown == mainpc = "done" /\ stop

\* C25: once the dispatcher thread has ended, main is not left waiting in a
\* put on the work queue: it enqueues the sentinel, joins the dispatcher and
\* stops the receiver
C25_ReachesTeardown == DispatcherGone ~> TornDown

====
